---------------------------- MODULE Spec2Model ----------------------------
(***************************************************************************)
(* A model of sqlmodel-filters: the compiler from a luqum query tree to a  *)
(* list of SQLAlchemy predicates (ExpressionsBuilder), the SELECT facade   *)
(* (SelectBuilder) and the leaf builders of components.py.                 *)
(*                                                                         *)
(* Strings that the code inspects character by character (term values)    *)
(* are sequences of one-character strings; field names are the sequence   *)
(* of their dot-separated segments (what ModelField.chains holds).        *)
(* A computation that may raise returns a record whose err field is "ok"  *)
(* or the name of the exception class.                                    *)
(***************************************************************************)
EXTENDS Integers, Sequences, FiniteSets, TLC

VARIABLES cfg, tree, entities, expressions, analyzed_positions, outcome, statement,
          ncalls, naborted, instances, threads

vars == <<cfg, tree, entities, expressions, analyzed_positions, outcome, statement,
          ncalls, naborted, instances, threads>>

\* the variables of the one-caller specifications
callvars == <<cfg, tree, entities, expressions, analyzed_positions, outcome, statement,
              ncalls, naborted>>

(***************************************************************************)
(* Bounds                                                                  *)
(***************************************************************************)
\* calls made on one builder instance
MaxCalls == 2
\* children of an And / Or / UnknownOperation node in the enumerated trees
MaxArity == 2
\* longest enumerated word of the wildcard specification
MaxWordLen == 3

\* the encoding of luqum's `pos = None` (real positions are offsets >= 0)
NoPos == -2

(***************************************************************************)
(* The schema the builder is configured with (tests/models.py)             *)
(***************************************************************************)
model_fields(m) ==
    CASE m = "Hero"        -> <<"id", "name", "secret_name", "age", "team_id">>
      [] m = "Team"        -> <<"id", "name", "headquarter_id">>
      [] m = "Headquarter" -> <<"id", "name">>
      [] OTHER             -> <<>>

annotation(m, f) ==
    IF f \in {"name", "secret_name"} THEN "str" ELSE "int?"

sqlmodel_relationships(m) ==
    CASE m = "Hero"        -> {"team"}
      [] m = "Team"        -> {"headquarter", "heroes"}
      [] m = "Headquarter" -> {"teams"}
      [] OTHER             -> {}

\* a local variable: bound once to the value of v, then used by Body
With(v, Body(_)) == Body(v)

Elems(s) == {s[i] : i \in DOMAIN s}

\* getattr(model, name) succeeds for columns and for relationship attributes
HasAttr(m, n) == n \in Elems(model_fields(m)) \cup sqlmodel_relationships(m)

(***************************************************************************)
(* Values and coercion (pydantic TypeAdapter.validate_python)              *)
(***************************************************************************)
Digits == <<"0", "1", "2", "3", "4", "5", "6", "7", "8", "9">>

IsDigit(c) == \E i \in DOMAIN Digits : Digits[i] = c

DigitVal(c) == (CHOOSE i \in DOMAIN Digits : Digits[i] = c) - 1

RECURSIVE ParseInt(_)
ParseInt(s) ==
    IF s = <<>> THEN 0
    ELSE 10 * ParseInt(SubSeq(s, 1, Len(s) - 1)) + DigitVal(s[Len(s)])

NoVal == [ty |-> "none", n |-> 0, s |-> <<>>]

StrVal(s) == [ty |-> "str", n |-> 0, s |-> s]

IntVal(n) == [ty |-> "int", n |-> n, s |-> <<>>]

\* validate a str against the declared type: str is kept, Optional[int] parses
\* a decimal literal and rejects anything else
validate_python(obj, ann) ==
    IF ann = "str" THEN [err |-> "ok", val |-> StrVal(obj)]
    ELSE IF obj # <<>> /\ \A i \in DOMAIN obj : IsDigit(obj[i])
         THEN [err |-> "ok", val |-> IntVal(ParseInt(obj))]
         ELSE [err |-> "ValidationError", val |-> NoVal]

(***************************************************************************)
(* utils.py                                                                *)
(***************************************************************************)
\* s[0] == s[-1] and s.startswith(prefix); s[0] of "" raises IndexError
is_surrounded(s, prefix) ==
    IF s = <<>> THEN [err |-> "IndexError", val |-> FALSE]
    ELSE [err |-> "ok", val |-> (s[1] = s[Len(s)] /\ s[1] \in prefix)]

Strip(s) == IF Len(s) < 2 THEN <<>> ELSE SubSeq(s, 2, Len(s) - 1)

dequote(s) ==
    LET r == is_surrounded(s, {"\"", "'"})
    IN  IF r.err # "ok" THEN [err |-> r.err, val |-> s]
        ELSE [err |-> "ok", val |-> IF r.val THEN Strip(s) ELSE s]

deslash(s) ==
    LET r == is_surrounded(s, {"/"})
    IN  IF r.err # "ok" THEN [err |-> r.err, val |-> s]
        ELSE [err |-> "ok", val |-> IF r.val THEN Strip(s) ELSE s]

(***************************************************************************)
(* components.py: relationships, LikeWord                                  *)
(***************************************************************************)
\* a relationship map is the sequence of its items, in insertion order
RelNames(rels) == {rels[i].name : i \in DOMAIN rels}

RelGet(rels, name) == rels[CHOOSE i \in DOMAIN rels : rels[i].name = name].rel

SimpleRel(m) == [kind |-> "model", model |-> m, join |-> m,
                 onclause |-> "None", isouter |-> "None", full |-> "None"]

JoinedRel(m, on, outer, full) == [kind |-> "dict", model |-> m, join |-> m,
                                  onclause |-> on, isouter |-> outer, full |-> full]

relationship_to_model(rel) == rel.model

\* the items of the mapping, in insertion order
WILDCARD_MAPPING == << <<"?", "_">>, <<"*", "%">> >>

\* str.replace for a one-character key
str_replace(s, k, v) == [i \in DOMAIN s |-> IF s[i] = k THEN v ELSE s[i]]

\* `for k, v in mapping.items(): s = s.replace(k, v)`
RECURSIVE replace_wildcards(_, _)
replace_wildcards(s, mapping) ==
    IF mapping = <<>> THEN s
    ELSE replace_wildcards(str_replace(s, Head(mapping)[1], Head(mapping)[2]), Tail(mapping))

wildcards == {WILDCARD_MAPPING[i][1] : i \in DOMAIN WILDCARD_MAPPING}

has_wildcard(s) == \E wildcard \in wildcards : wildcard \in Elems(s)

\* LikeWord.__str__ wrapping the translated value in every case
LikeWordAlwaysWrapped(s) == <<"%">> \o replace_wildcards(s, WILDCARD_MAPPING) \o <<"%">>

LikeWord(s) ==
    IF has_wildcard(s) THEN replace_wildcards(s, WILDCARD_MAPPING)
    ELSE <<"%">> \o s \o <<"%">>

(***************************************************************************)
(* luqum tree nodes.  Every node is a record of the same shape:            *)
(* kind, pos, name (SearchField), value (terms), inc (include flags of     *)
(* Range / From / To) and children.                                        *)
(***************************************************************************)
Node(kind, pos, name, value, inc, children) ==
    [kind |-> kind, pos |-> pos, name |-> name, value |-> value,
     inc |-> inc, children |-> children]

Word(v, p) == Node("Word", p, <<>>, v, <<>>, <<>>)

Phrase(v, p) == Node("Phrase", p, <<>>, v, <<>>, <<>>)

Regex(v, p) == Node("Regex", p, <<>>, v, <<>>, <<>>)

RangeNode(low, high, include_low, include_high, p) ==
    Node("Range", p, <<>>, <<>>, <<include_low, include_high>>, <<low, high>>)

From(a, include, p) == Node("From", p, <<>>, <<>>, <<include>>, <<a>>)

To(a, include, p) == Node("To", p, <<>>, <<>>, <<include>>, <<a>>)

Fuzzy(a, p) == Node("Fuzzy", p, <<>>, <<>>, <<>>, <<a>>)

SearchField(name, expr, p) == Node("SearchField", p, name, <<>>, <<>>, <<expr>>)

Unary(kind, a, p) == Node(kind, p, <<>>, <<>>, <<>>, <<a>>)

Operation(kind, children, p) == Node(kind, p, <<>>, <<>>, <<>>, children)

NoTree == Node("NoTree", NoPos, <<>>, <<>>, <<>>, <<>>)

(***************************************************************************)
(* Predicates (SQLAlchemy column expressions), kept as expression trees    *)
(***************************************************************************)
Cmp(op, fld, val) == [op |-> op, fld |-> fld, val |-> val, args |-> <<>>]

\* and_ / or_ of a single clause return that clause (BooleanClauseList)
and_(exprs) ==
    IF Len(exprs) = 1 THEN exprs[1]
    ELSE [op |-> "and", fld |-> <<>>, val |-> NoVal, args |-> exprs]

or_(exprs) ==
    IF Len(exprs) = 1 THEN exprs[1]
    ELSE [op |-> "or", fld |-> <<>>, val |-> NoVal, args |-> exprs]

\* not_(clause) takes exactly one positional argument
not_(exprs) ==
    IF Len(exprs) = 1
    THEN [err |-> "ok", val |-> [op |-> "not", fld |-> <<>>, val |-> NoVal, args |-> exprs]]
    ELSE [err |-> "TypeError", val |-> Cmp("none", <<>>, NoVal)]

(***************************************************************************)
(* components.py: ModelField                                               *)
(***************************************************************************)
\* the loop over chains[:-2]: each name must be an ORM relationship of the
\* current model, and is then looked up in the relationship map
RECURSIVE ChainWalk(_, _, _, _)
ChainWalk(model, chains, rels, i) ==
    IF i > Len(chains) - 2 THEN [err |-> "ok", model |-> model]
    ELSE IF chains[i] \notin sqlmodel_relationships(model)
         THEN [err |-> "IllegalFieldError", model |-> model]
    ELSE IF chains[i] \notin RelNames(rels)
         THEN [err |-> "KeyError", model |-> model]
    ELSE ChainWalk(relationship_to_model(RelGet(rels, chains[i])), chains, rels, i + 1)

chained_model(model, chains, rels) ==
    IF Len(chains) <= 1 THEN [err |-> "ok", model |-> model]
    ELSE With(ChainWalk(model, chains, rels, 1), LAMBDA w :
         With(chains[Len(chains) - 1], LAMBDA relationship_name :
             IF w.err # "ok" THEN w
             ELSE IF relationship_name \in RelNames(rels)
                  THEN [err |-> "ok",
                        model |-> relationship_to_model(RelGet(rels, relationship_name))]
                  ELSE [err |-> "IllegalFieldError", model |-> w.model]))

last_name(chains) == chains[Len(chains)]

\* ModelField.field: getattr(chained_model, last_name)
field(model, chains, rels) ==
    With(chained_model(model, chains, rels), LAMBDA cm :
        IF cm.err # "ok" THEN [err |-> cm.err, val |-> <<>>]
        ELSE IF HasAttr(cm.model, last_name(chains))
             THEN [err |-> "ok", val |-> <<cm.model, last_name(chains)>>]
             ELSE [err |-> "IllegalFieldError", val |-> <<>>])

\* ModelField.field_info: chained_model.model_fields[last_name]
field_info(model, chains, rels) ==
    With(chained_model(model, chains, rels), LAMBDA cm :
        IF cm.err # "ok" THEN [err |-> cm.err, val |-> "none"]
        ELSE IF last_name(chains) \in Elems(model_fields(cm.model))
             THEN [err |-> "ok", val |-> annotation(cm.model, last_name(chains))]
             ELSE [err |-> "KeyError", val |-> "none"])

cast(model, chains, rels, obj) ==
    With(field_info(model, chains, rels), LAMBDA fi :
        IF fi.err # "ok" THEN [err |-> fi.err, val |-> NoVal]
        ELSE validate_python(obj, fi.val))

(***************************************************************************)
(* components.py: SearchFieldNode                                          *)
(***************************************************************************)
Raise(e) == [err |-> e, out |-> <<>>]

Yield(exprs) == [err |-> "ok", out |-> exprs]

\* `self.field <op> self.model_field.cast(raw)`: the left operand is evaluated
\* first, then the cast
Compare(model, chains, rels, op, raw) ==
    With(field(model, chains, rels), LAMBDA f :
    With(cast(model, chains, rels, raw), LAMBDA c :
        IF f.err # "ok" THEN Raise(f.err)
        ELSE IF c.err # "ok" THEN Raise(c.err)
        ELSE Yield(<<Cmp(op, f.val, c.val)>>)))

_phrase_expression(phrase, model, chains, rels) ==
    With(field(model, chains, rels), LAMBDA f :
    With(dequote(phrase.value), LAMBDA d :
        IF f.err # "ok" THEN Raise(f.err)
        ELSE IF d.err # "ok" THEN Raise(d.err)
        ELSE Compare(model, chains, rels, "eq", d.val)))

\* LikeWord over the casted str
LikeExpression(fld, casted) == Cmp("like", fld, StrVal(LikeWord(casted.s)))

\* _word_expression that tests for `*` only after the cast
_word_expression_coercing(word, model, chains, rels) ==
    With(field(model, chains, rels), LAMBDA f :
    With(cast(model, chains, rels, word.value), LAMBDA c :
        IF c.err # "ok" THEN Raise(c.err)
        ELSE IF f.err # "ok" THEN Raise(f.err)
        ELSE IF word.value = <<"*">> THEN Yield(<<Cmp("isnot_null", f.val, NoVal)>>)
        ELSE IF c.val.ty = "str" THEN Yield(<<LikeExpression(f.val, c.val)>>)
        ELSE Yield(<<Cmp("eq", f.val, c.val)>>)))

_word_expression(word, model, chains, rels) ==
    With(field(model, chains, rels), LAMBDA f :
    With(cast(model, chains, rels, word.value), LAMBDA c :
        IF word.value = <<"*">>
        THEN IF f.err # "ok" THEN Raise(f.err)
             ELSE Yield(<<Cmp("isnot_null", f.val, NoVal)>>)
        ELSE IF c.err # "ok" THEN Raise(c.err)
        ELSE IF f.err # "ok" THEN Raise(f.err)
        ELSE IF c.val.ty = "str" THEN Yield(<<LikeExpression(f.val, c.val)>>)
        ELSE Yield(<<Cmp("eq", f.val, c.val)>>)))

_range_expressions(range, model, chains, rels) ==
    LET low == range.children[1]
        high == range.children[2]
        include_low == range.inc[1]
        include_high == range.inc[2]
    IN  With(Compare(model, chains, rels,
                     IF include_high THEN "le" ELSE "lt", high.value), LAMBDA upper :
        With(Compare(model, chains, rels,
                     IF include_low THEN "ge" ELSE "gt", low.value), LAMBDA lower :
            IF upper.err # "ok" THEN upper
            ELSE IF lower.err # "ok" THEN lower
            ELSE Yield(<<and_(upper.out \o lower.out)>>)))

\* _from_expression comparing with >= whatever the bound
_from_expression_inclusive(from_, model, chains, rels) ==
    Compare(model, chains, rels, "ge", from_.children[1].value)

_from_expression(from_, model, chains, rels) ==
    Compare(model, chains, rels, IF from_.inc[1] THEN "ge" ELSE "gt",
            from_.children[1].value)

_to_expression(to, model, chains, rels) ==
    Compare(model, chains, rels, IF to.inc[1] THEN "le" ELSE "lt",
            to.children[1].value)

_regex_expression(regex, model, chains, rels) ==
    With(field(model, chains, rels), LAMBDA f :
    With(deslash(regex.value), LAMBDA d :
        IF f.err # "ok" THEN Raise(f.err)
        ELSE IF d.err # "ok" THEN Raise(d.err)
        ELSE Yield(<<Cmp("regexp_match", f.val, StrVal(d.val))>>)))

\* SearchFieldNode.get_expressions: the match over the wrapped node
SearchFieldNode(node, model, chains, rels) ==
    CASE node.kind = "Phrase" -> _phrase_expression(node, model, chains, rels)
      [] node.kind = "Word"   -> _word_expression(node, model, chains, rels)
      [] node.kind = "Range"  -> _range_expressions(node, model, chains, rels)
      [] node.kind = "From"   -> _from_expression(node, model, chains, rels)
      [] node.kind = "To"     -> _to_expression(node, model, chains, rels)
      [] node.kind = "Regex"  -> _regex_expression(node, model, chains, rels)
      [] OTHER                -> Raise("IllegalFilterError")

(***************************************************************************)
(* components.py: BaseNode, WordNode, PhraseNode (default fields)          *)
(***************************************************************************)
\* self.default_fields = default_fields or model.model_fields
BaseNode_default_fields(model, default_fields) ==
    IF default_fields.given /\ default_fields.names # <<>>
    THEN default_fields.names
    ELSE model_fields(model)

\* BaseNode.get_field: getattr(self.model, name)
get_field(model, name) ==
    IF HasAttr(model, name) THEN [err |-> "ok", val |-> <<model, name>>]
    ELSE [err |-> "AttributeError", val |-> <<>>]

\* one iteration of WordNode's loop; contextlib.suppress(Exception) turns any
\* exception into no predicate for this name
WordNodeField(node, model, name) ==
    With(get_field(model, name), LAMBDA f :
    With(cast(model, <<name>>, <<>>, node.value), LAMBDA c :
        IF f.err # "ok" THEN <<>>
        ELSE IF node.value = <<"*">> THEN <<Cmp("isnot_null", f.val, NoVal)>>
        ELSE IF c.err # "ok" THEN <<>>
        ELSE IF c.val.ty = "str" THEN <<LikeExpression(f.val, c.val)>>
        ELSE <<Cmp("eq", f.val, c.val)>>))

\* one iteration of PhraseNode's loop
PhraseNodeField(node, model, name) ==
    With(get_field(model, name), LAMBDA f :
    With(dequote(node.value), LAMBDA d :
    With(cast(model, <<name>>, <<>>, d.val), LAMBDA c :
        IF f.err # "ok" \/ d.err # "ok" \/ c.err # "ok" THEN <<>>
        ELSE <<Cmp("eq", f.val, c.val)>>)))

\* WordNode with the suppress around the whole loop: the first failing field
\* ends the expansion
RECURSIVE WordNodeStopsAtFailure(_, _, _)
WordNodeStopsAtFailure(node, model, names) ==
    IF names = <<>> THEN <<>>
    ELSE With(WordNodeField(node, model, Head(names)), LAMBDA e :
             IF e = <<>> THEN <<>>
             ELSE e \o WordNodeStopsAtFailure(node, model, Tail(names)))

RECURSIVE WordNode(_, _, _)
WordNode(node, model, names) ==
    IF names = <<>> THEN <<>>
    ELSE WordNodeField(node, model, Head(names)) \o WordNode(node, model, Tail(names))

RECURSIVE PhraseNode(_, _, _)
PhraseNode(node, model, names) ==
    IF names = <<>> THEN <<>>
    ELSE PhraseNodeField(node, model, Head(names)) \o PhraseNode(node, model, Tail(names))

(***************************************************************************)
(* builder.py: ExpressionsBuilder.  `self` is the configuration record     *)
(* (model, relationships, default_fields); the analyzed positions are      *)
(* threaded through as `an`, and every handler returns the predicates it   *)
(* yields, the positions analyzed so far and the exception raised, if any. *)
(***************************************************************************)
\* pos = node.pos or -1
NodePos(node) == IF node.pos = NoPos \/ node.pos = 0 THEN -1 ELSE node.pos

\* is_analyzed that never finds a position
NeverAnalyzed(pos, an) == FALSE

is_analyzed(pos, an) == pos \in an

update_analyzed_positions(pos, an) == an \cup {pos}

Result(err, out, an) == [err |-> err, out |-> out, an |-> an]

_handel_search_field(self, node, an) ==
    With(NodePos(node), LAMBDA pos :
        IF is_analyzed(pos, an) THEN Result("ok", <<>>, an)
        ELSE With(SearchFieldNode(node.children[1], self.model, node.name,
                                  self.relationships), LAMBDA r :
                 Result(r.err, r.out, update_analyzed_positions(pos, an))))

\* _handle_and_operation joining with or_
AndCombineAsOr(exprs) == IF Len(exprs) > 0 THEN Yield(<<or_(exprs)>>) ELSE Yield(<<>>)

AndCombine(exprs) == IF Len(exprs) > 0 THEN Yield(<<and_(exprs)>>) ELSE Yield(<<>>)

OrCombine(exprs) == IF Len(exprs) > 0 THEN Yield(<<or_(exprs)>>) ELSE Yield(<<>>)

NotCombine(exprs) ==
    IF Len(exprs) > 0
    THEN With(not_(exprs), LAMBDA n :
             IF n.err # "ok" THEN Raise(n.err) ELSE Yield(<<n.val>>))
    ELSE Yield(<<>>)

RECURSIVE get_expressions(_, _, _)

\* itertools.chain.from_iterable([self.get_expressions(child) for child in
\* node.children]): the children's generators are drained in child order
RECURSIVE ChainChildren(_, _, _)
ChainChildren(self, children, an) ==
    IF children = <<>> THEN Result("ok", <<>>, an)
    ELSE With(get_expressions(self, Head(children), an), LAMBDA h :
             IF h.err # "ok" THEN Result(h.err, <<>>, h.an)
             ELSE With(ChainChildren(self, Tail(children), h.an), LAMBDA t :
                      Result(t.err, IF t.err = "ok" THEN h.out \o t.out ELSE <<>>, t.an)))

_handle_and_operation(self, node, an) ==
    With(ChainChildren(self, node.children, an), LAMBDA c :
        IF c.err # "ok" THEN c
        ELSE With(AndCombine(c.out), LAMBDA e : Result(e.err, e.out, c.an)))

_handle_or_operation(self, node, an) ==
    With(ChainChildren(self, node.children, an), LAMBDA c :
        IF c.err # "ok" THEN c
        ELSE With(OrCombine(c.out), LAMBDA e : Result(e.err, e.out, c.an)))

_handle_not(self, node, an) ==
    With(ChainChildren(self, node.children, an), LAMBDA c :
        IF c.err # "ok" THEN c
        ELSE With(NotCombine(c.out), LAMBDA e : Result(e.err, e.out, c.an)))

_handle_group(self, node, an) == _handle_and_operation(self, node, an)

_handle_unknown_operation(self, node, an) == ChainChildren(self, node.children, an)

get_expressions(self, node, an) ==
    CASE node.kind = "Word"             -> Result("ok", <<>>, an)
      [] node.kind = "SearchField"      -> _handel_search_field(self, node, an)
      [] node.kind = "Not"              -> _handle_not(self, node, an)
      [] node.kind = "Group"            -> _handle_group(self, node, an)
      [] node.kind = "AndOperation"     -> _handle_and_operation(self, node, an)
      [] node.kind = "OrOperation"      -> _handle_or_operation(self, node, an)
      [] node.kind = "UnknownOperation" -> _handle_unknown_operation(self, node, an)
      [] OTHER                          -> Result("IllegalFilterError", <<>>, an)

\* get_wrapper() and wrapper.get_expressions() of _handle_top_level_term
TopLevelWrapper(self, node) ==
    With(BaseNode_default_fields(self.model, self.default_fields), LAMBDA names :
        CASE node.kind = "Word"   -> Yield(WordNode(node, self.model, names))
          [] node.kind = "Phrase" -> Yield(PhraseNode(node, self.model, names))
          [] OTHER                -> Raise("IllegalFilterError"))

_handle_top_level_term(self, node, an) ==
    With(NodePos(node), LAMBDA pos :
        IF is_analyzed(pos, an) THEN Result("ok", <<>>, an)
        ELSE With(TopLevelWrapper(self, node), LAMBDA r :
                 Result(r.err, r.out, update_analyzed_positions(pos, an))))

(***************************************************************************)
(* The luqum TreeVisitor walk.  st is the builder's mutable state during   *)
(* the walk: err, expressions (self.expressions) and an.                   *)
(***************************************************************************)
WalkState(err, exprs, an) == [err |-> err, expressions |-> exprs, an |-> an]

\* extend under a suppress: an exception of the generator is dropped
ExtendSuppressing(st, r) ==
    IF r.err # "ok" THEN WalkState("ok", st.expressions, r.an)
    ELSE WalkState("ok", st.expressions \o r.out, r.an)

\* self.expressions.extend(list(<generator>)): nothing is appended when the
\* generator raises
Extend(st, r) ==
    IF r.err # "ok" THEN WalkState(r.err, st.expressions, r.an)
    ELSE WalkState("ok", st.expressions \o r.out, r.an)

\* visit_term taking every term under a parent for a top-level term
LastOfParentIsAlwaysNode(parents, node) == TRUE

\* visit_term's second test, `parents[-1][-1] == node`: a luqum Item cannot be
\* indexed, the TypeError is suppressed and is_top_level stays False
LastOfParentIsNode(parents, node) == FALSE

\* visit_term without the test on the parents
AlwaysTopLevel(parents, node) == TRUE

is_top_level(parents, node) ==
    IF Len(parents) = 0 THEN TRUE ELSE LastOfParentIsNode(parents, node)

\* the visit_* method TreeVisitor._get_method finds for a node
VisitMethod(node) ==
    CASE node.kind \in {"Word", "Phrase", "Regex"} -> "visit_term"
      [] node.kind = "SearchField"                 -> "visit_search_field"
      [] node.kind = "AndOperation"                -> "visit_and_operation"
      [] node.kind = "OrOperation"                 -> "visit_or_operation"
      [] node.kind = "Not"                         -> "visit_not"
      [] node.kind = "UnknownOperation"            -> "visit_unknown_operation"
      [] OTHER                                     -> "generic_visit"

\* what the visit_* method does before it calls generic_visit
VisitOwn(self, node, parents, st) ==
    With(VisitMethod(node), LAMBDA method :
        CASE method = "generic_visit" -> st
          [] method = "visit_term" ->
                IF is_top_level(parents, node)
                THEN Extend(st, _handle_top_level_term(self, node, st.an))
                ELSE st
          [] OTHER -> Extend(st, get_expressions(self, node, st.an)))

RECURSIVE visit_iter(_, _, _, _)

\* super().generic_visit(node, context): every child is visited with the node
\* appended to context["parents"]
RECURSIVE generic_visit(_, _, _, _)
generic_visit(self, children, parents, st) ==
    IF children = <<>> \/ st.err # "ok" THEN st
    ELSE generic_visit(self, Tail(children), parents,
                       visit_iter(self, Head(children), parents, st))

visit_iter(self, node, parents, st) ==
    With(VisitOwn(self, node, parents, st), LAMBDA own :
        IF own.err # "ok" THEN own
        ELSE generic_visit(self, node.children, Append(parents, node), own))

\* __call__ without the two assignments that reset the instance fields
KeepState(exprs, an) == WalkState("ok", exprs, an)

\* the state __call__ starts the walk from
ResetState(exprs, an) == WalkState("ok", <<>>, {})

\* ExpressionsBuilder.__call__
ExpressionsBuilder_call(self, t, exprs, an) ==
    visit_iter(self, t, <<>>, ResetState(exprs, an))

(***************************************************************************)
(* builder.py: SelectBuilder                                               *)
(***************************************************************************)
NonePred == Cmp("none", <<>>, NoVal)

NoStatement == [columns |-> <<>>, scalar |-> FALSE, joins |-> <<>>,
                has_where |-> FALSE, whereclause |-> NonePred]

\* entities: None, one entity, or a tuple / list of entities
NoEntities == [kind |-> "None", cols |-> <<>>]

Select(self, ents) ==
    CASE ents.kind = "None"  -> <<self.model>>
      [] ents.kind = "tuple" -> ents.cols
      [] OTHER                 -> ents.cols

\* s.join(...) for one value of the relationship map
JoinOf(rel) ==
    IF rel.kind = "dict"
    THEN [target |-> rel.join, onclause |-> rel.onclause,
          isouter |-> (rel.isouter = "True"), full |-> (rel.full = "True")]
    ELSE [target |-> rel.model, onclause |-> "None", isouter |-> FALSE, full |-> FALSE]

\* the facade applying no join
NoJoins(self) == <<>>

Joins(self) == [i \in DOMAIN self.relationships |-> JoinOf(self.relationships[i].rel)]

\* the facade joining the root-level predicates with and_
WhereAnd(exprs) ==
    IF Len(exprs) > 0 THEN [has_where |-> TRUE, whereclause |-> and_(exprs)]
    ELSE [has_where |-> FALSE, whereclause |-> NonePred]

\* `if len(self.expressions) > 0: return s.where(or_(*self.expressions))`
Where(exprs) ==
    IF Len(exprs) > 0 THEN [has_where |-> TRUE, whereclause |-> or_(exprs)]
    ELSE [has_where |-> FALSE, whereclause |-> NonePred]

SelectBuilder_call(self, t, ents, exprs, an) ==
    With(ExpressionsBuilder_call(self, t, exprs, an), LAMBDA w :
    With(Where(w.expressions), LAMBDA wh :
        [walk |-> w,
         statement |-> IF w.err # "ok" THEN NoStatement
                       ELSE [columns |-> Select(self, ents),
                             scalar |-> (ents.kind # "tuple"),
                             joins |-> Joins(self),
                             has_where |-> wh.has_where,
                             whereclause |-> wh.whereclause]]))

(***************************************************************************)
(* Inputs: builder configurations, terms and query trees                   *)
(***************************************************************************)
Rel(name, rel) == [name |-> name, rel |-> rel]

NoDefaultFields == [given |-> FALSE, names |-> <<>>]

DefaultFields(names) == [given |-> TRUE, names |-> names]

Builder(model, rels, default_fields) ==
    [model |-> model, relationships |-> rels, default_fields |-> default_fields]

PlainHero == Builder("Hero", <<>>, NoDefaultFields)

Configs ==
    { PlainHero,
      Builder("Hero", <<Rel("team", SimpleRel("Team")),
                        Rel("headquarter", SimpleRel("Headquarter"))>>,
              DefaultFields(<<"name", "age">>)),
      Builder("Hero", <<Rel("headquarter", SimpleRel("Headquarter"))>>,
              DefaultFields(<<"age", "bogus", "name">>)),
      Builder("Hero", <<Rel("team", JoinedRel("Team", "Hero.team_id == Team.id", "True", "None"))>>,
              DefaultFields(<<>>)) }

star == <<"*">>
foo == <<"f", "o", "o">>
bar == <<"b", "a", "r">>
n48 == <<"4", "8">>
n50 == <<"5", "0">>
quoted == <<"\"", "f", "o", "o", "\"">>
slashed == <<"/", "f", "o", "/">>

\* the nodes a field qualifier can wrap; their positions follow the qualifier
Inners ==
    { Word(star, 5), Word(foo, 5), Word(n48, 5), Phrase(quoted, 5), Regex(slashed, 5),
      RangeNode(Word(n48, 6), Word(n50, 12), TRUE, TRUE, 5),
      RangeNode(Word(n48, 6), Word(foo, 12), FALSE, FALSE, 5),
      RangeNode(Word(n48, 6), Word(n50, 12), FALSE, FALSE, 5),
      RangeNode(Word(n48, 6), Word(n50, 12), TRUE, FALSE, 5),
      RangeNode(Word(n48, 6), Word(n50, 12), FALSE, TRUE, 5),
      From(Word(n48, 6), FALSE, 5), To(Word(n48, 7), TRUE, 5),
      From(Word(n48, 7), TRUE, 5), To(Word(n48, 6), FALSE, 5),
      Fuzzy(Word(foo, 5), 5) }

FieldNames ==
    { <<"name">>, <<"age">>, <<"bogus">>, <<"team", "name">>,
      <<"team", "bogus">>, <<"team", "headquarter", "name">>,
      <<"bogus", "headquarter", "name">> }

QualifiedTrees == { SearchField(nm, inner, 0) : nm \in FieldNames, inner \in Inners }

BareTrees == { Word(foo, 0), Word(n48, 0), Word(star, 0), Phrase(quoted, 0),
               Regex(slashed, 0) }

\* the leaves of the enumerated connective trees
LeafA == SearchField(<<"name">>, Word(star, 5), 0)
LeafB == SearchField(<<"age">>, Word(star, 12), 7)
LeafC == SearchField(<<"age">>, Word(n48, 0), NoPos)
LeafW == Word(foo, 14)

Leaves == {LeafA, LeafB, LeafC, LeafW}

NaryKinds == {"AndOperation", "OrOperation", "UnknownOperation"}

\* Plus is a luqum node the builder has no handler for
UnaryKinds == {"Not", "Group", "Plus"}

\* sequences of 0..n elements of S
RECURSIVE SeqsUpTo(_, _)
SeqsUpTo(S, n) ==
    IF n = 0 THEN {<<>>}
    ELSE {<<>>} \cup {Append(q, x) : q \in SeqsUpTo(S, n - 1), x \in S}

Over(childSeqs, unaryChildren) ==
    { Operation(k, cs, 3) : k \in NaryKinds, cs \in childSeqs } \cup
    { Unary(k, c, 3) : k \in UnaryKinds, c \in unaryChildren }

Depth1Trees == Over(SeqsUpTo(Leaves, MaxArity) \ {<<>>}, Leaves)

\* the trees of the many-call specification; the last six abort the call
CallTrees ==
    { SearchField(<<"name">>, Word(foo, 5), 0),
      SearchField(<<"name">>, Word(bar, 5), 0),
      SearchField(<<"age">>, Word(n48, 13), 9),
      SearchField(<<"team", "name">>, Word(foo, 10), 0),
      Word(foo, 0),
      Operation("UnknownOperation", <<Word(foo, 0), Word(bar, 4)>>, 0),
      Operation("AndOperation", <<LeafA, LeafB>>, 3),
      Operation("UnknownOperation", <<LeafA, LeafB>>, 3),
      Operation("OrOperation", <<LeafB, SearchField(<<"age">>, Word(foo, 20), 15)>>, 3),
      Unary("Not", Operation("UnknownOperation", <<LeafA, LeafB>>, 3), 0),
      SearchField(<<"bogus">>, Word(star, 6), 0),
      SearchField(<<"name">>, Fuzzy(Word(foo, 5), 5), 0),
      Operation("AndOperation", <<LeafA, SearchField(<<"bogus">>, Word(star, 13), 7)>>, 3),
      Operation("UnknownOperation",
                <<LeafA, SearchField(<<"name">>, Fuzzy(Word(foo, 12), 12), 7)>>, 3) }

\* the trees of the leaf specification: every qualified and every bare leaf
LeafTrees == QualifiedTrees \cup BareTrees

EntitiesChoices ==
    { NoEntities, [kind |-> "single", cols |-> <<"Hero.id">>],
      [kind |-> "tuple", cols |-> <<"Hero.id", "Hero.name">>] }

(***************************************************************************)
(* The state machine: one builder instance and the calls made on it.       *)
(* tree and entities are the arguments of the last call, outcome what it   *)
(* raised or returned; naborted counts the calls that raised.              *)
(***************************************************************************)
NoOutcome == [err |-> "none", returned |-> <<>>]

\* the callers and the builder instances of the concurrent specification
Threads == {"t1", "t2"}

Instances == {"b1", "b2"}

\* self.expressions and self._analyzed_positions after __init__
FreshInstance == [expressions |-> <<>>, an |-> {}]

\* a caller that has not called yet
IdleThread == [pc |-> "idle", inst |-> "b1", tree |-> NoTree, todo |-> <<>>,
               err |-> "none", returned |-> <<>>, overlapped |-> FALSE]

InitBuilder(self) ==
    /\ instances = [b \in Instances |-> FreshInstance]
    /\ threads = [th \in Threads |-> IdleThread]
    /\ cfg = self
    /\ tree = NoTree
    /\ entities = NoEntities
    /\ expressions = <<>>
    /\ analyzed_positions = {}
    /\ outcome = NoOutcome
    /\ statement = NoStatement
    /\ ncalls = 0
    /\ naborted = 0

\* SelectBuilder(model, relationships=..., default_fields=...)
Init == \E self \in Configs : InitBuilder(self)

\* builder(t, entities=ents): the instance fields keep what the walk left in
\* them, also when the call raised
Call(t, ents) ==
    \E r \in {SelectBuilder_call(cfg, t, ents, expressions, analyzed_positions)} :
        /\ tree' = t
        /\ entities' = ents
        /\ expressions' = r.walk.expressions
        /\ analyzed_positions' = r.walk.an
        /\ outcome' = [err |-> r.walk.err,
                       returned |-> IF r.walk.err = "ok" THEN r.walk.expressions ELSE <<>>]
        /\ statement' = r.statement
        /\ ncalls' = ncalls + 1
        /\ naborted' = IF r.walk.err = "ok" THEN naborted ELSE naborted + 1
        /\ UNCHANGED <<cfg, instances, threads>>

Next == /\ ncalls < MaxCalls
        /\ \E t \in CallTrees, ents \in EntitiesChoices : Call(t, ents)

Spec == Init /\ [][Next]_vars

\* a leaf alone, or one connective over leaves
CallShallow == \E t \in Leaves \cup Depth1Trees : Call(t, NoEntities)

\* And / Or / UnknownOperation over leaves and one nested connective
CallNestedNary ==
    \E k \in NaryKinds, x \in Depth1Trees,
       before \in SeqsUpTo(Leaves, MaxArity - 1), after \in SeqsUpTo(Leaves, MaxArity - 1) :
        /\ Len(before) + Len(after) < MaxArity
        /\ Call(Operation(k, before \o <<x>> \o after, 3), NoEntities)

\* Not / Group / Plus over a connective
CallNestedUnary ==
    \E k \in UnaryKinds, x \in Depth1Trees : Call(Unary(k, x, 0), NoEntities)

\* three levels of connectives: a leaf, then a connective over a connective
\* and a leaf
CallNestedTwice ==
    \E k1 \in NaryKinds, k2 \in NaryKinds, x \in Depth1Trees, l1 \in Leaves, l2 \in Leaves :
        Call(Operation(k1, <<l2, Operation(k2, <<x, l1>>, 3)>>, 3), NoEntities)

\* one call on a fresh builder, over the enumerated connective trees
InitDeep == InitBuilder(PlainHero)

NextDeep == /\ ncalls = 0
            /\ (CallShallow \/ CallNestedNary \/ CallNestedUnary \/ CallNestedTwice)

SpecDeep == InitDeep /\ [][NextDeep]_vars

\* one call on a fresh builder of any configuration, over the leaves
NextLeaf == /\ ncalls = 0
            /\ \E t \in LeafTrees : Call(t, NoEntities)

SpecLeaf == Init /\ [][NextLeaf]_vars

\* the characters of the enumerated words: the two Lucene wildcards, the two
\* LIKE wildcards and two plain characters
Alphabet == {"?", "*", "%", "_", "t", "e"}

Literals ==
    (SeqsUpTo(Alphabet, MaxWordLen) \ {<<>>})
        \cup {foo, <<"t", "e", "?", "t">>, <<"t", "e", "*", "t">>}

\* `name:<word>`
CallLikeQualified ==
    \E w \in Literals : Call(SearchField(<<"name">>, Word(w, 5), 0), NoEntities)

\* `<word>` over the fields of the model
CallLikeBare == \E w \in Literals : Call(Word(w, 0), NoEntities)

\* one call on a fresh builder, over the enumerated words
NextLike == /\ ncalls = 0
            /\ (CallLikeQualified \/ CallLikeBare)

SpecLike == InitDeep /\ [][NextLike]_vars

(***************************************************************************)
(* Two callers and two builder instances.  A call is the reset of          *)
(* __call__, then one step per node the visitor visits (the visit_* method *)
(* of the node, its children queued for the generic traversal), then the   *)
(* return of self.expressions.  The fields are read and written in the     *)
(* instance the call is made on.                                           *)
(***************************************************************************)
\* the trees the two callers compile
ThreadTrees ==
    { SearchField(<<"name">>, Word(foo, 5), 0),
      SearchField(<<"name">>, Word(bar, 5), 0),
      Operation("UnknownOperation", <<LeafA, LeafB>>, 3),
      Operation("OrOperation", <<LeafB, SearchField(<<"age">>, Word(foo, 20), 15)>>, 3) }

\* the fields of every instance kept in one place, as class attributes would be
SharedFields(b) == "b1"

\* where the fields of instance b are: in b itself
FieldsOf(b) == b

\* the callers inside a call on instance b
Walking(b) == {th \in Threads : threads[th].pc = "walking" /\ threads[th].inst = b}

\* the visits generic_visit makes for the children of a visited node
ChildVisits(h) ==
    [i \in DOMAIN h.node.children |->
        [node |-> h.node.children[i], parents |-> Append(h.parents, h.node)]]

\* builder(t) entered: the two assignments that reset the instance fields
Begin(th, b, t) ==
    /\ threads[th].pc = "idle"
    /\ \E st \in {ResetState(instances[FieldsOf(b)].expressions, instances[FieldsOf(b)].an)} :
           instances' = [instances EXCEPT ![FieldsOf(b)] =
                            [expressions |-> st.expressions, an |-> st.an]]
    /\ threads' = [x \in Threads |->
                      IF x = th
                      THEN [pc |-> "walking", inst |-> b, tree |-> t,
                            todo |-> <<[node |-> t, parents |-> <<>>]>>,
                            err |-> "none", returned |-> <<>>,
                            overlapped |-> (Walking(b) # {})]
                      ELSE IF x \in Walking(b)
                           THEN [threads[x] EXCEPT !.overlapped = TRUE]
                           ELSE threads[x]]
    /\ UNCHANGED callvars

\* the visit of the next node: its visit_* method runs on the instance fields
Visit(th) ==
    /\ threads[th].pc = "walking"
    /\ threads[th].todo # <<>>
    /\ \E cur \in {threads[th]} :
       \E h \in {Head(cur.todo)}, b \in {FieldsOf(cur.inst)} :
       \E st \in {VisitOwn(cfg, h.node, h.parents,
                            WalkState("ok", instances[b].expressions, instances[b].an))} :
           /\ instances' = [instances EXCEPT ![b] =
                                [expressions |-> st.expressions, an |-> st.an]]
           /\ threads' = [threads EXCEPT ![th] =
                              IF st.err # "ok"
                              THEN [cur EXCEPT !.pc = "raised", !.err = st.err, !.todo = <<>>]
                              ELSE [cur EXCEPT !.todo = ChildVisits(h) \o Tail(cur.todo)]]
    /\ UNCHANGED callvars

\* `return self.expressions`
Return(th) ==
    /\ threads[th].pc = "walking"
    /\ threads[th].todo = <<>>
    /\ threads' = [threads EXCEPT ![th] =
                       [@ EXCEPT !.pc = "done", !.err = "ok",
                                 !.returned = instances[FieldsOf(threads[th].inst)].expressions]]
    /\ UNCHANGED <<callvars, instances>>

InitThreads == InitBuilder(PlainHero)

NextThreads ==
    \E th \in Threads :
        \/ \E b \in Instances, t \in ThreadTrees : Begin(th, b, t)
        \/ Visit(th)
        \/ Return(th)

SpecThreads == InitThreads /\ [][NextThreads]_vars

(***************************************************************************)
(* Reference semantics of the specification (section 4.6), used by the     *)
(* properties below: what a node denotes when every leaf is compiled once. *)
(***************************************************************************)
Conj(xs) == IF Len(xs) = 1 THEN xs[1]
            ELSE [op |-> "and", fld |-> <<>>, val |-> NoVal, args |-> xs]

Disj(xs) == IF Len(xs) = 1 THEN xs[1]
            ELSE [op |-> "or", fld |-> <<>>, val |-> NoVal, args |-> xs]

Neg(x) == [op |-> "not", fld |-> <<>>, val |-> NoVal, args |-> <<x>>]

LeafOf(self, node) ==
    SearchFieldNode(node.children[1], self.model, node.name, self.relationships).out

RECURSIVE Denote(_, _)

RECURSIVE DenoteAll(_, _)
DenoteAll(self, children) ==
    IF children = <<>> THEN <<>>
    ELSE Denote(self, Head(children)) \o DenoteAll(self, Tail(children))

Denote(self, node) ==
    CASE node.kind = "SearchField" -> LeafOf(self, node)
      [] node.kind = "UnknownOperation" -> DenoteAll(self, node.children)
      [] node.kind \in {"AndOperation", "Group", "OrOperation", "Not"} ->
            With(DenoteAll(self, node.children), LAMBDA ps :
                IF ps = <<>> THEN <<>>
                ELSE IF node.kind = "OrOperation" THEN <<Disj(ps)>>
                ELSE IF node.kind = "Not" THEN <<Neg(Conj(ps))>>
                ELSE <<Conj(ps)>>)
      [] OTHER -> <<>>

\* the field-qualified nodes of a tree, in document order
RECURSIVE QualifiedNodes(_)
RECURSIVE QualifiedNodesOf(_)
QualifiedNodesOf(children) ==
    IF children = <<>> THEN <<>>
    ELSE QualifiedNodes(Head(children)) \o QualifiedNodesOf(Tail(children))

QualifiedNodes(node) ==
    IF node.kind = "SearchField" THEN <<node>> ELSE QualifiedNodesOf(node.children)

DistinctPositions(t) ==
    \A q \in {QualifiedNodes(t)} :
        \A i, j \in DOMAIN q : i # j => NodePos(q[i]) # NodePos(q[j])

\* every node of the tree, in document order
RECURSIVE AllNodes(_)
RECURSIVE AllNodesOf(_)
AllNodesOf(children) ==
    IF children = <<>> THEN <<>>
    ELSE AllNodes(Head(children)) \o AllNodesOf(Tail(children))

AllNodes(node) == <<node>> \o AllNodesOf(node.children)

\* the node kinds section 4.6 lists, with a supported node under a qualifier
HandledKinds == {"Word", "SearchField", "Not", "Group", "AndOperation",
                 "OrOperation", "UnknownOperation"}

InnerKinds == {"Word", "Phrase", "Range", "From", "To", "Regex"}

RECURSIVE Supported(_)
Supported(node) ==
    IF node.kind = "SearchField" THEN node.children[1].kind \in InnerKinds
    ELSE /\ node.kind \in HandledKinds
         /\ \A i \in DOMAIN node.children : Supported(node.children[i])

\* the comparison predicates inside a predicate, left to right
RECURSIVE Atoms(_)
RECURSIVE AtomsOf(_)
AtomsOf(preds) ==
    IF preds = <<>> THEN <<>> ELSE Atoms(Head(preds)) \o AtomsOf(Tail(preds))

Atoms(pred) ==
    IF pred.op \in {"and", "or", "not"} THEN AtomsOf(pred.args) ELSE <<pred>>

Count(seq, x) == Cardinality({i \in DOMAIN seq : seq[i] = x})

Called == ncalls > 0

Returned == Called /\ outcome.err = "ok"

(***************************************************************************)
(* C1: each call on one instance gives what a freshly constructed          *)
(* instance (expressions = [], _analyzed_positions = set()) gives for the  *)
(* same tree, also after calls that raised; no analyzed position of an     *)
(* earlier tree is left in the instance.                                   *)
(***************************************************************************)
CallsAreIndependent ==
    Called =>
        \A fresh \in {SelectBuilder_call(cfg, tree, entities, <<>>, {})} :
            /\ outcome.err = fresh.walk.err
            /\ expressions = fresh.walk.expressions
            /\ analyzed_positions = fresh.walk.an
            /\ statement = fresh.statement
            /\ outcome.err = "ok" => outcome.returned = fresh.walk.expressions
            /\ analyzed_positions \subseteq
                   {NodePos(AllNodes(tree)[i]) : i \in DOMAIN AllNodes(tree)}

\* a call that returned, on an instance where an earlier call raised
CallAfterAbortedCall ==
    /\ ncalls >= 2
    /\ naborted >= 1
    /\ outcome.err = "ok"
    /\ Len(outcome.returned) = 1

(***************************************************************************)
(* C2: within one call no leaf is compiled twice.  The generic traversal   *)
(* that follows a visit_* handler adds nothing to what the handler emitted,*)
(* every comparison of the output stems from a distinct field-qualified    *)
(* node of the tree, and every such node is marked analyzed.               *)
(***************************************************************************)
LeafAtoms(self, t) ==
    IF t.kind \in {"Word", "Phrase"} THEN AtomsOf(TopLevelWrapper(self, t).out)
    ELSE AtomsOf(DenoteAll(self, QualifiedNodes(t)))

EachLeafCompiledOnce ==
    Returned =>
        /\ VisitMethod(tree) # "generic_visit" =>
               outcome.returned =
                   VisitOwn(cfg, tree, <<>>, WalkState("ok", <<>>, {})).expressions
        /\ \A a \in Elems(AtomsOf(outcome.returned)) :
               Count(AtomsOf(outcome.returned), a) <= Count(LeafAtoms(cfg, tree), a)
        /\ \A i \in DOMAIN QualifiedNodes(tree) :
               NodePos(QualifiedNodes(tree)[i]) \in analyzed_positions

\* a connective under a connective was visited again by the generic traversal
NestedConnectiveRevisited ==
    /\ Returned
    /\ tree.kind = "AndOperation"
    /\ \E i \in DOMAIN tree.children : tree.children[i].kind = "OrOperation"
    /\ Len(outcome.returned) = 1
    /\ Cardinality(analyzed_positions) >= 2

(***************************************************************************)
(* C3: an UnknownOperation adds no connective: at the root each predicate  *)
(* of its children goes into the root-level list on its own, under And /   *)
(* Or they become arguments of the parent's connective, and the facade     *)
(* joins a root-level list of several predicates with OR.                  *)
(***************************************************************************)
HasUnknownChild(t) ==
    \E i \in DOMAIN t.children : t.children[i].kind = "UnknownOperation"

ImplicitCombinationIsDisjunctive ==
    Returned =>
        /\ (tree.kind = "UnknownOperation" /\ DistinctPositions(tree)) =>
               outcome.returned = DenoteAll(cfg, tree.children)
        /\ (tree.kind \in {"AndOperation", "OrOperation"} /\ HasUnknownChild(tree)
                /\ DistinctPositions(tree)) =>
               outcome.returned = Denote(cfg, tree)
        /\ Len(outcome.returned) > 1 =>
               /\ statement.has_where
               /\ statement.whereclause =
                      [op |-> "or", fld |-> <<>>, val |-> NoVal, args |-> outcome.returned]

\* `name:* age:*`: two predicates at the root, joined by OR in the WHERE clause
TwoImplicitTermsCompiled ==
    /\ Returned
    /\ tree.kind = "UnknownOperation"
    /\ Len(outcome.returned) = 2
    /\ statement.whereclause.op = "or"
    /\ outcome.returned[1] = Cmp("isnot_null", <<"Hero", "name">>, NoVal)
    /\ outcome.returned[2] = Cmp("isnot_null", <<"Hero", "age">>, NoVal)

(***************************************************************************)
(* C4: an And (Or) node emits one predicate, the conjunction (disjunction) *)
(* of the predicates of its children in child order, and nothing when      *)
(* every child is vacuous.                                                 *)
(***************************************************************************)
AndOrCombineChildren ==
    (Returned /\ tree.kind \in {"AndOperation", "OrOperation"}) =>
        /\ Len(outcome.returned) <= 1
        /\ QualifiedNodes(tree) = <<>> => outcome.returned = <<>>
        /\ DistinctPositions(tree) =>
               /\ outcome.returned = Denote(cfg, tree)
               /\ Len(DenoteAll(cfg, tree.children)) >= 2 =>
                      outcome.returned =
                          << [op |-> IF tree.kind = "AndOperation" THEN "and" ELSE "or",
                              fld |-> <<>>, val |-> NoVal,
                              args |-> DenoteAll(cfg, tree.children)] >>

\* an And over two field-qualified terms gave the conjunction of the two
ConjunctionEmitted ==
    /\ Returned
    /\ tree.kind = "AndOperation"
    /\ Len(outcome.returned) = 1
    /\ outcome.returned[1].op = "and"
    /\ Len(outcome.returned[1].args) = 2

(***************************************************************************)
(* C5: a Not node over supported nodes never fails, and emits the negation *)
(* of the conjunction of its child's predicates when there is any.         *)
(***************************************************************************)
NotNegatesConjunction ==
    (Called /\ tree.kind = "Not" /\ Supported(tree)) =>
        /\ outcome.err = "ok"
        /\ DistinctPositions(tree) => outcome.returned = Denote(cfg, tree)

(***************************************************************************)
(* C6: a Group of supported nodes compiles as the And node over the same   *)
(* children does, also when the Group is the root of the tree.             *)
(***************************************************************************)
GroupCompilesAsAnd ==
    (Called /\ tree.kind = "Group" /\ Supported(tree)) =>
        \A asAnd \in {SelectBuilder_call(cfg, Operation("AndOperation", tree.children, tree.pos),
                                         entities, <<>>, {})} :
            /\ outcome.err = asAnd.walk.err
            /\ statement = asAnd.statement

(***************************************************************************)
(* C7: a tree holding a node of a kind the builder has no handler for      *)
(* fails with IllegalFilterError, wherever the node is.                    *)
(***************************************************************************)
UnsupportedNodeFails ==
    (Called /\ ~Supported(tree) /\ tree.kind # "Phrase") =>
        outcome.err = "IllegalFilterError"

(***************************************************************************)
(* C8: a dotted path whose intermediate names are all in the relationship  *)
(* map resolves to the last segment on the last relationship's target, and *)
(* fails with IllegalFieldError when an intermediate name is not in the    *)
(* map.                                                                    *)
(***************************************************************************)
Intermediate(chains) == {chains[i] : i \in 1..(Len(chains) - 1)}

QualifiedCall == Called /\ tree.kind = "SearchField" /\ Supported(tree)

ChainedPathResolution ==
    (QualifiedCall /\ Len(tree.name) >= 2) =>
        IF Intermediate(tree.name) \subseteq RelNames(cfg.relationships)
        THEN \A target \in {RelGet(cfg.relationships, tree.name[Len(tree.name) - 1]).model} :
                 (tree.children[1].value = star
                      /\ last_name(tree.name) \in Elems(model_fields(target))) =>
                     /\ outcome.err = "ok"
                     /\ outcome.returned =
                            <<Cmp("isnot_null", <<target, last_name(tree.name)>>, NoVal)>>
        ELSE outcome.err = "IllegalFieldError"

(***************************************************************************)
(* C9: a field-qualified term whose path resolves to a model that does not *)
(* declare the last segment as a field fails with IllegalFieldError, for   *)
(* every supported kind of inner node.                                     *)
(***************************************************************************)
UndeclaredFieldFails ==
    QualifiedCall =>
        \A cm \in {chained_model(cfg.model, tree.name, cfg.relationships)} :
            (cm.err = "ok" /\ last_name(tree.name) \notin Elems(model_fields(cm.model))) =>
                outcome.err = "IllegalFieldError"

(***************************************************************************)
(* C10: the expansion of a bare Word or Phrase at the root never raises:   *)
(* it gives, in the order of the candidate fields, the predicate of every  *)
(* candidate whose lookup and coercion succeed, and skips the others.      *)
(***************************************************************************)
Candidates(self) ==
    IF self.default_fields.given /\ self.default_fields.names # <<>>
    THEN self.default_fields.names
    ELSE model_fields(self.model)

\* the raw token a bare term is coerced from: a Phrase loses its quotes
RawToken(t) ==
    IF t.kind = "Phrase" /\ Len(t.value) >= 2 /\ t.value[1] = t.value[Len(t.value)]
           /\ t.value[1] \in {"\"", "'"}
    THEN SubSeq(t.value, 2, Len(t.value) - 1)
    ELSE t.value

IsPresenceTest(t) == t.kind = "Word" /\ t.value = star

CandidateSucceeds(self, t, name) ==
    /\ HasAttr(self.model, name)
    /\ \/ IsPresenceTest(t)
       \/ /\ name \in Elems(model_fields(self.model))
          /\ validate_python(RawToken(t), annotation(self.model, name)).err = "ok"

CandidatePredicate(self, t, name) ==
    IF IsPresenceTest(t) THEN Cmp("isnot_null", <<self.model, name>>, NoVal)
    ELSE IF t.kind = "Word" /\ annotation(self.model, name) = "str"
         THEN Cmp("like", <<self.model, name>>, StrVal(LikeWord(t.value)))
         ELSE Cmp("eq", <<self.model, name>>,
                  validate_python(RawToken(t), annotation(self.model, name)).val)

ExpectedExpansion(self, t) ==
    LET Succeeds(name) == CandidateSucceeds(self, t, name)
        kept == SelectSeq(Candidates(self), Succeeds)
    IN  [i \in DOMAIN kept |-> CandidatePredicate(self, t, kept[i])]

DefaultFieldExpansion ==
    (Called /\ tree.kind \in {"Word", "Phrase"}) =>
        /\ outcome.err = "ok"
        /\ outcome.returned = ExpectedExpansion(cfg, tree)
        /\ statement.has_where = (outcome.returned # <<>>)

\* `foo` over the default fields age, bogus, name: age fails to coerce, bogus
\* is no attribute, name matches
FailingCandidatesSkipped ==
    /\ Called
    /\ tree = Word(foo, 0)
    /\ cfg.default_fields = DefaultFields(<<"age", "bogus", "name">>)
    /\ outcome.returned =
           <<Cmp("like", <<"Hero", "name">>, StrVal(<<"%", "f", "o", "o", "%">>))>>

(***************************************************************************)
(* C11: a Word or Phrase under a field qualifier is compiled against the   *)
(* named field only.  The call gives what it gives on a builder without    *)
(* default fields, and every predicate it returns is on the named field,   *)
(* although visit_term reaches the inner term too.                         *)
(***************************************************************************)
QualifiedTermCall ==
    Called /\ tree.kind = "SearchField" /\ tree.children[1].kind \in {"Word", "Phrase"}

WithoutDefaultFields(self) == [self EXCEPT !.default_fields = NoDefaultFields]

QualifiedTermNotExpanded ==
    QualifiedTermCall =>
        /\ VisitMethod(tree.children[1]) = "visit_term"
        /\ \A plain \in {SelectBuilder_call(WithoutDefaultFields(cfg), tree, entities, <<>>, {})} :
               /\ outcome.err = plain.walk.err
               /\ expressions = plain.walk.expressions
        /\ outcome.err = "ok" =>
               /\ outcome.returned = LeafOf(cfg, tree)
               /\ Len(outcome.returned) = 1
               /\ \A f \in {field(cfg.model, tree.name, cfg.relationships)} :
                      f.err = "ok" /\ outcome.returned[1].fld = f.val

\* `age:48` on a builder whose default fields are name and age
QualifiedTermWithDefaultFields ==
    /\ Called
    /\ cfg.default_fields = DefaultFields(<<"name", "age">>)
    /\ tree = SearchField(<<"age">>, Word(n48, 5), 0)
    /\ outcome.returned = <<Cmp("eq", <<"Hero", "age">>, IntVal(48))>>

(***************************************************************************)
(* C12: when a field-qualified node of the tree fails (its value cannot be *)
(* coerced to the field's type, its field is illegal, or its inner node is *)
(* unsupported), the call raises that error and returns neither a          *)
(* predicate list nor a statement, also when nodes before it compiled.     *)
(***************************************************************************)
\* the error of the first field-qualified node, in document order, that fails
RECURSIVE FirstFailure(_, _)
FirstFailure(self, nodes) ==
    IF nodes = <<>> THEN "ok"
    ELSE With(SearchFieldNode(Head(nodes).children[1], self.model, Head(nodes).name,
                              self.relationships), LAMBDA r :
             IF r.err # "ok" THEN r.err ELSE FirstFailure(self, Tail(nodes)))

FatalErrorAborts ==
    (Called /\ DistinctPositions(tree)) =>
        \A e \in {FirstFailure(cfg, QualifiedNodes(tree))} :
            /\ e # "ok" =>
                   /\ outcome.err = e
                   /\ outcome.returned = <<>>
                   /\ statement = NoStatement
            /\ outcome.err \in {"ValidationError", "IllegalFieldError",
                                "IllegalFilterError", "KeyError"} => outcome.err = e

\* `age:* OR age:foo`: the first term compiles, the second cannot be coerced
CoercionFailedAfterCompiledTerm ==
    /\ Called
    /\ tree.kind = "OrOperation"
    /\ FirstFailure(cfg, <<tree.children[1]>>) = "ok"
    /\ outcome.err = "ValidationError"
    /\ outcome.returned = <<>>
    /\ statement = NoStatement

(***************************************************************************)
(* C13: the statement of a call that returns selects the given entities    *)
(* (the model when none is given), has one join per entry of the           *)
(* relationship map, in map order and whatever the tree names, and has a   *)
(* WHERE clause, the OR of the root-level list, exactly when the list is   *)
(* not empty.                                                              *)
(***************************************************************************)
ExpectedJoin(rel) ==
    IF rel.kind = "dict"
    THEN [target |-> rel.join, onclause |-> rel.onclause,
          isouter |-> (rel.isouter \notin {"None", "False"}),
          full |-> (rel.full \notin {"None", "False"})]
    ELSE [target |-> rel.model, onclause |-> "None", isouter |-> FALSE, full |-> FALSE]

FacadeStatement ==
    Returned =>
        /\ statement.columns =
               IF entities.kind = "None" THEN <<cfg.model>> ELSE entities.cols
        /\ Len(statement.joins) = Len(cfg.relationships)
        /\ \A i \in DOMAIN cfg.relationships :
               statement.joins[i] = ExpectedJoin(cfg.relationships[i].rel)
        /\ statement.has_where = (outcome.returned # <<>>)
        /\ statement.whereclause =
               IF outcome.returned = <<>> THEN NonePred ELSE Disj(outcome.returned)

\* two bare words on a builder with a joined relationship: the join is
\* applied, no WHERE clause is
JoinedWithoutFilter ==
    /\ Returned
    /\ tree.kind = "UnknownOperation"
    /\ outcome.returned = <<>>
    /\ ~statement.has_where
    /\ statement.columns = <<"Hero">>
    /\ statement.joins = << [target |-> "Team", onclause |-> "Hero.team_id == Team.id",
                             isouter |-> TRUE, full |-> FALSE] >>

(***************************************************************************)
(* C14: the LIKE pattern of a word without `?` and `*` is the word between *)
(* two `%`; the pattern of a word with a wildcard is the word with every   *)
(* `?` turned into `_` and every `*` into `%`, nothing added and every     *)
(* other character kept (te?t -> te_t, te*t -> te%t, foo -> %foo%).        *)
(***************************************************************************)
ExpectedPattern(w) ==
    IF \A i \in DOMAIN w : w[i] # "?" /\ w[i] # "*"
    THEN <<"%">> \o w \o <<"%">>
    ELSE [i \in DOMAIN w |-> CASE w[i] = "?" -> "_"
                                [] w[i] = "*" -> "%"
                                [] OTHER      -> w[i]]

TermValue(t) == IF t.kind = "SearchField" THEN t.children[1].value ELSE t.value

LikePredicates(preds) == SelectSeq(preds, LAMBDA p : p.op = "like")

WildcardTranslation ==
    (Called /\ TermValue(tree) # star) =>
        \A w \in {TermValue(tree)} :
            /\ outcome.err = "ok"
            /\ LikePredicates(outcome.returned) # <<>>
            /\ \A i \in DOMAIN outcome.returned :
                   outcome.returned[i].op = "like" =>
                       outcome.returned[i].val = StrVal(ExpectedPattern(w))
            /\ tree.kind = "SearchField" =>
                   outcome.returned =
                       <<Cmp("like", <<"Hero", "name">>, StrVal(ExpectedPattern(w)))>>
            /\ w = <<"t", "e", "?", "t">> =>
                   LikePredicates(outcome.returned)[1].val.s = <<"t", "e", "_", "t">>
            /\ w = <<"t", "e", "*", "t">> =>
                   LikePredicates(outcome.returned)[1].val.s = <<"t", "e", "%", "t">>
            /\ w = foo =>
                   LikePredicates(outcome.returned)[1].val.s = <<"%", "f", "o", "o", "%">>

\* `name:?e*`: both wildcards translated, nothing added around them
BothWildcardsTranslated ==
    /\ Returned
    /\ tree.kind = "SearchField"
    /\ TermValue(tree) = <<"?", "e", "*">>
    /\ outcome.returned = <<Cmp("like", <<"Hero", "name">>, StrVal(<<"_", "e", "%">>))>>

(***************************************************************************)
(* C15: a bound comparison is strict exactly when the bound is exclusive.  *)
(* A Range gives one predicate, the AND of the upper bound (<= or <) and   *)
(* the lower bound (>= or >); From gives one >= or >, To one <= or <; the  *)
(* bound values are coerced to the field's type.  Over an integer age,     *)
(* a bound of 48 matches the age 48 exactly when it is inclusive.          *)
(***************************************************************************)
BoundCall ==
    Returned /\ tree.kind = "SearchField" /\ tree.children[1].kind \in {"Range", "From", "To"}

\* whether a row with this integer in the compared column satisfies the predicate
RECURSIVE Matches(_, _)
Matches(pred, v) ==
    CASE pred.op = "and" -> \A i \in DOMAIN pred.args : Matches(pred.args[i], v)
      [] pred.op = "le"  -> v <= pred.val.n
      [] pred.op = "lt"  -> v < pred.val.n
      [] pred.op = "ge"  -> v >= pred.val.n
      [] pred.op = "gt"  -> v > pred.val.n
      [] OTHER           -> FALSE

Coerced(self, chains, raw) ==
    validate_python(raw, field_info(self.model, chains, self.relationships).val).val

ExpectedBounds(self, t) ==
    LET inner == t.children[1]
        fld == field(self.model, t.name, self.relationships).val
        Bound(op, word) == Cmp(op, fld, Coerced(self, t.name, word.value))
    IN  CASE inner.kind = "Range" ->
                << [op |-> "and", fld |-> <<>>, val |-> NoVal,
                    args |-> << Bound(IF inner.inc[2] THEN "le" ELSE "lt", inner.children[2]),
                                Bound(IF inner.inc[1] THEN "ge" ELSE "gt", inner.children[1]) >>] >>
          [] inner.kind = "From" ->
                << Bound(IF inner.inc[1] THEN "ge" ELSE "gt", inner.children[1]) >>
          [] inner.kind = "To" ->
                << Bound(IF inner.inc[1] THEN "le" ELSE "lt", inner.children[1]) >>

\* the 48 of the enumerated bounds: the low end of a Range, the bound of From / To
BoundIs48Inclusive(inner) ==
    /\ inner.children[1].value = n48
    /\ inner.inc[1]

BoundsStrictWhenExclusive ==
    BoundCall =>
        /\ outcome.returned = ExpectedBounds(cfg, tree)
        /\ Len(outcome.returned) = 1
        /\ outcome.returned[1].op = "and" <=> tree.children[1].kind = "Range"
        /\ tree.name = <<"age">> =>
               /\ \A i \in DOMAIN AtomsOf(outcome.returned) :
                      AtomsOf(outcome.returned)[i].val.ty = "int"
               /\ Matches(outcome.returned[1], 48) <=> BoundIs48Inclusive(tree.children[1])
               /\ tree.children[1].kind # "To" => Matches(outcome.returned[1], 49)
               /\ tree.children[1].kind = "To" => Matches(outcome.returned[1], 47)

\* `age:{48 TO 50}`: both comparisons strict, 48 is not matched
ExclusiveRangeCompiled ==
    /\ Returned
    /\ tree = SearchField(<<"age">>, RangeNode(Word(n48, 6), Word(n50, 12), FALSE, FALSE, 5), 0)
    /\ outcome.returned =
           << [op |-> "and", fld |-> <<>>, val |-> NoVal,
               args |-> << Cmp("lt", <<"Hero", "age">>, IntVal(50)),
                           Cmp("gt", <<"Hero", "age">>, IntVal(48)) >>] >>
    /\ ~Matches(outcome.returned[1], 48)

(***************************************************************************)
(* C16: a field-qualified Word on a declared field gives one predicate:    *)
(* IS NOT NULL when the value is exactly `*`, of whatever type the field   *)
(* is and without coercing the value; otherwise a LIKE on the translated   *)
(* pattern when the coerced value is a string and an equality on the       *)
(* coerced value when it is not.                                           *)
(***************************************************************************)
\* the model and field a legal path names, by the relationship map
NamedField(self, chains) ==
    IF Len(chains) = 1 THEN <<self.model, chains[1]>>
    ELSE <<RelGet(self.relationships, chains[Len(chains) - 1]).model, chains[Len(chains)]>>

QualifiedWordCall ==
    /\ Called
    /\ tree.kind = "SearchField"
    /\ tree.children[1].kind = "Word"
    /\ field(cfg.model, tree.name, cfg.relationships).err = "ok"
    /\ field_info(cfg.model, tree.name, cfg.relationships).err = "ok"

AllDigits(w) == w # <<>> /\ \A i \in DOMAIN w : w[i] \in Elems(Digits)

QualifiedWordPredicate ==
    QualifiedWordCall =>
        \A w \in {tree.children[1].value}, fld \in {NamedField(cfg, tree.name)} :
            \A ann \in {annotation(fld[1], fld[2])} :
                CASE w = star ->
                        /\ outcome.err = "ok"
                        /\ outcome.returned = <<Cmp("isnot_null", fld, NoVal)>>
                  [] w # star /\ ann = "str" ->
                        /\ outcome.err = "ok"
                        /\ outcome.returned = <<Cmp("like", fld, StrVal(ExpectedPattern(w)))>>
                  [] w # star /\ ann # "str" /\ AllDigits(w) ->
                        /\ outcome.err = "ok"
                        /\ outcome.returned = <<Cmp("eq", fld, IntVal(ParseInt(w)))>>
                  [] OTHER -> outcome.err = "ValidationError"

\* `age:*`: an integer field, and a value that would not coerce to it
PresenceTestOnIntegerField ==
    /\ Returned
    /\ tree.kind = "SearchField"
    /\ tree.name = <<"age">>
    /\ tree.children[1] = Word(star, 5)
    /\ outcome.returned = <<Cmp("isnot_null", <<"Hero", "age">>, NoVal)>>

(***************************************************************************)
(* C17: in one call every field-qualified node under And, Or, Not, Group   *)
(* and UnknownOperation contributes its predicate exactly once, whatever   *)
(* the positions of the nodes: distinct, 0, absent, or shared by two       *)
(* nodes.                                                                  *)
(***************************************************************************)
EveryQualifiedNodeContributes ==
    (Returned /\ Supported(tree) /\ tree.kind # "Word") =>
        AtomsOf(outcome.returned) = AtomsOf(DenoteAll(cfg, QualifiedNodes(tree)))

\* the same, for trees whose field-qualified nodes have distinct positions
DistinctPositionsContribute ==
    (Returned /\ Supported(tree) /\ tree.kind # "Word" /\ DistinctPositions(tree)) =>
        AtomsOf(outcome.returned) = AtomsOf(DenoteAll(cfg, QualifiedNodes(tree)))

(***************************************************************************)
(* C18: a bare Word below the root contributes no predicate and raises no  *)
(* error: the call gives what it gives for the tree without its bare       *)
(* Words.  Two bare words under an UnknownOperation give an empty list and *)
(* no WHERE clause; a bare word AND a field-qualified term give the        *)
(* predicate of the field-qualified term alone.                            *)
(***************************************************************************)
\* the tree without the bare Words below its root
RECURSIVE Prune(_)
RECURSIVE PruneAll(_)
PruneAll(children) ==
    IF children = <<>> THEN <<>>
    ELSE (IF Head(children).kind = "Word" THEN <<>> ELSE <<Prune(Head(children))>>)
             \o PruneAll(Tail(children))

Prune(node) ==
    IF node.kind = "SearchField" THEN node
    ELSE [node EXCEPT !.children = PruneAll(node.children)]

HasBareWordChild(t) == \E i \in DOMAIN t.children : t.children[i].kind = "Word"

OnlyBareWordChildren(t) == \A i \in DOMAIN t.children : t.children[i].kind = "Word"

NestedBareWordIgnored ==
    (Called /\ tree.kind \notin {"Word", "SearchField"}) =>
        /\ \A pruned \in {SelectBuilder_call(cfg, Prune(tree), entities, <<>>, {})} :
               /\ outcome.err = pruned.walk.err
               /\ expressions = pruned.walk.expressions
               /\ analyzed_positions = pruned.walk.an
               /\ statement = pruned.statement
        /\ OnlyBareWordChildren(tree) =>
               /\ outcome.err = "ok"
               /\ outcome.returned = <<>>
               /\ ~statement.has_where
        /\ \A i \in DOMAIN tree.children :
               tree.children[i].kind = "Word" => NodePos(tree.children[i]) \notin analyzed_positions

\* `foo AND name:*` gives name IS NOT NULL alone
BareWordBesideQualifiedTerm ==
    /\ Returned
    /\ tree = Operation("AndOperation", <<LeafW, LeafA>>, 3)
    /\ outcome.returned = <<Cmp("isnot_null", <<"Hero", "name">>, NoVal)>>
    /\ statement.has_where

(***************************************************************************)
(* C19: the per-call state is in fields of the instance.  A call that no   *)
(* other call on the same instance overlaps, and so every call whose       *)
(* instance the other caller does not use, gives what the call gives       *)
(* alone; when two calls on one instance interleave, a call can return a   *)
(* list that differs from the one it returns alone.                        *)
(***************************************************************************)
Finished(th) == threads[th].pc \in {"done", "raised"}

\* the thread's call gave what the same call gives alone on a fresh instance
AsAlone(th) ==
    \A alone \in {ExpressionsBuilder_call(cfg, threads[th].tree, <<>>, {})} :
        /\ threads[th].pc = "raised" <=> alone.err # "ok"
        /\ threads[th].pc = "raised" => threads[th].err = alone.err
        /\ threads[th].pc = "done" => threads[th].returned = alone.expressions

OnItsOwnInstance(th) ==
    \A o \in Threads \ {th} : threads[o].pc = "idle" \/ threads[o].inst # threads[th].inst

SerializedCallsAgree ==
    \A th \in Threads :
        Finished(th) =>
            /\ OnItsOwnInstance(th) => AsAlone(th)
            /\ ~threads[th].overlapped => AsAlone(th)

\* two calls interleaved on one instance, one of them returning a list it
\* does not return alone
InterleavedCallDiffers ==
    \E th \in Threads :
        /\ threads[th].pc = "done"
        /\ threads[th].overlapped
        /\ \E o \in Threads \ {th} : threads[o].inst = threads[th].inst /\ threads[o].pc # "idle"
        /\ ExpressionsBuilder_call(cfg, threads[th].tree, <<>>, {}).err = "ok"
        /\ threads[th].returned # ExpressionsBuilder_call(cfg, threads[th].tree, <<>>, {}).expressions

==========================================================================
